---------------------------- MODULE Spec2Model ----------------------------
(***************************************************************************)
(* Tile-swap puzzle game (public/app.js): the puzzle session state machine *)
(* and the shuffle engine.                                                 *)
(*                                                                         *)
(* Arrays are modelled as functions over 0..n-1 so that positions keep the *)
(* indexes of the source.  A tile is modelled by its originalIndex (its    *)
(* canvas is not modelled).                                                *)
(***************************************************************************)
EXTENDS Integers, Sequences, FiniteSets, TLC

(***************************************************************************)
(* Bounds of the model.                                                    *)
(***************************************************************************)
\* the server offers at most this many levels
MaxLevels == 2
\* the user activates only positions 0..MaxPos-1, and Math.random() leaves
\* every position >= MaxPos where it is (Fisher-Yates draws j = i there)
MaxPos == 3
\* at most this many re-render timers are pending at once
MaxTimers == 2
\* the shuffle engine on its own is run on arrays of at most this many tiles
MaxTiles == 5
\* the levels directory holds at most this many items, an item name has at
\* most this many tokens, a level folder at most this many files
MaxItems == 2
MaxNameLen == 2
MaxFiles == 2

(***************************************************************************)
(* Program constants.                                                      *)
(***************************************************************************)
null == -1
baseSize == 3
maxSize == 6

VARIABLES
    \* the state object (app.js lines 14-24)
    levels, currentLevelIndex, currentLevel, gridSize, tiles, selectedTile,
    isSolved, originalImage, audioElement,
    \* the presentation surface
    screen,          \* the one screen that is not hidden
    errorMessage,    \* elements.errorMessage.textContent
    locked,          \* puzzleContainer carries the class 'locked'
    selectedCls,     \* positions whose tile element carries the class 'selected'
    playback,        \* the audio element: playing or not, 'canplaythrough' awaited
    \* the event loop
    renderTimers,    \* pending setTimeout(renderPuzzle, 150)
    solveTimers,     \* pending setTimeout(showCompletionScreen, 500)
    calls,           \* async calls (init, loadLevel) suspended at an await
    \* history (not program state)
    last,            \* the step taken last, with the puzzle state before it
    loadSnap,        \* the session fields when the latest load was requested
    audioCount,      \* audio elements constructed since isSolved last became true
    loadBy,          \* the control that requested the latest load
    boardLevel,      \* level index the current board was built for
    \* the shuffle engine run on its own
    shPc, shTiles, shRandom, shShuffled, shResult,
    \* GET /api/levels run on its own (server.js)
    svPc,            \* "request" before the handler has run, "done" after
    svExists,        \* the levels directory exists
    svItems,         \* fs.readdirSync(levelsDir) with what each item is
    svResponse       \* the status and the JSON body sent

stateVars == <<levels, currentLevelIndex, currentLevel, gridSize, tiles,
               selectedTile, isSolved, originalImage, audioElement>>
domVars == <<screen, errorMessage, locked, selectedCls, playback>>
loopVars == <<renderTimers, solveTimers, calls>>
histVars == <<last, loadSnap, audioCount, loadBy, boardLevel>>
shVars == <<shPc, shTiles, shRandom, shShuffled, shResult>>
svVars == <<svPc, svExists, svItems, svResponse>>
\* the parts that run on their own
ownVars == <<shVars, svVars>>
vars == <<stateVars, domVars, loopVars, histVars, shVars, svVars>>

(***************************************************************************)
(* Arrays.                                                                 *)
(***************************************************************************)
Length(a) == Cardinality(DOMAIN a)

EmptyArray == [i \in {} |-> 0]

\* [a[i], a[j]] = [a[j], a[i]]
Exchange(a, i, j) ==
    [k \in DOMAIN a |-> IF k = i THEN a[j] ELSE IF k = j THEN a[i] ELSE a[k]]

Min(a, b) == IF a < b THEN a ELSE b

(***************************************************************************)
(* Utility functions.                                                      *)
(***************************************************************************)
calculateGridSize(levelIndex) == Min(baseSize + levelIndex, maxSize)

\* createTiles: gridSize*gridSize tiles, row-major, originalIndex = row*gridSize+col
createTiles(n) ==
    [index \in 0..(n * n - 1) |-> (index \div n) * n + (index % n)]

\* The outcomes of Math.floor(Math.random() * (i + 1)) for i = n-1 .. 1, as a
\* function i |-> j with 0 <= j <= i; positions >= depth draw j = i.
RandomChoices(n, depth) ==
    LET d == Min(n, depth)
        free == {r \in [1..(d - 1) -> 0..(d - 1)] : \A i \in 1..(d - 1) : r[i] <= i}
    IN  {[i \in 1..(n - 1) |-> IF i < d THEN r[i] ELSE i] : r \in free}

\* the Fisher-Yates loop from index i down to 1
RECURSIVE FisherYates(_, _, _)
FisherYates(shuffled, i, rnd) ==
    IF i < 1 THEN shuffled
    ELSE FisherYates(Exchange(shuffled, i, rnd[i]), i - 1, rnd)

\* number of pairs i < j with shuffled[i] > shuffled[j]
Inversions(shuffled) ==
    LET pos == DOMAIN shuffled
    IN  Cardinality({p \in pos \X pos :
                        p[1] < p[2] /\ shuffled[p[1]] > shuffled[p[2]]})

\* the shuffle without lines 119-124: the random order is returned as it is
ParityFix_Skipped(shuffled) == shuffled

\* lines 119-124: swap the first two elements when the count is odd
ParityFix(shuffled) ==
    IF Inversions(shuffled) % 2 # 0 THEN Exchange(shuffled, 0, 1) ELSE shuffled

shuffleTiles(t, rnd) == ParityFix(FisherYates(t, Length(t) - 1, rnd))

checkSolved(t) == \A index \in DOMAIN t : t[index] = index

(***************************************************************************)
(* The server as the client sees it.                                       *)
(***************************************************************************)
\* a level list of k folders level_1 .. level_k, in the order GET /api/levels
\* returns them
LevelList(k) == [i \in 0..(k - 1) |-> i + 1]

\* state.levels[levelIndex]; undefined (null) outside the array
LevelName(levelIndex) ==
    IF levelIndex \in DOMAIN levels THEN levels[levelIndex] ELSE null

(***************************************************************************)
(* Screens.  showScreen leaves exactly one of the six screens visible.     *)
(***************************************************************************)
\* the screen that holds each control (public/index.html); a control of a
\* hidden screen cannot be activated
ControlScreen(control) ==
    CASE control = "startBtn" -> "welcome"
      [] control = "retryBtn" -> "error"
      [] control = "replayBtn" -> "completion"
      [] control = "nextBtn" -> "completion"
      [] control = "restartBtn" -> "final"
      [] control = "tile" -> "game"

Shown(control) == screen = ControlScreen(control)

(***************************************************************************)
(* History.                                                                *)
(***************************************************************************)
Step(op, arg) ==
    [op |-> op, arg |-> arg, tiles |-> tiles, selectedTile |-> selectedTile,
     isSolved |-> isSolved]

Log(op, arg) == last' = Step(op, arg)

SessionFields ==
    [currentLevelIndex |-> currentLevelIndex, currentLevel |-> currentLevel,
     gridSize |-> gridSize, tiles |-> tiles, selectedTile |-> selectedTile,
     isSolved |-> isSolved, audioElement |-> audioElement]

(***************************************************************************)
(* Puzzle functions, as functions of the part of the state they touch.     *)
(***************************************************************************)
Puzzle ==
    [tiles |-> tiles, selectedTile |-> selectedTile, isSolved |-> isSolved,
     selectedCls |-> selectedCls, locked |-> locked,
     renderTimers |-> renderTimers, solveTimers |-> solveTimers]

\* a swap that copies one way only: tiles[indexA] = tiles[indexB]
swapTiles_Overwrite(s, indexA, indexB) ==
    [s EXCEPT !.tiles = [@ EXCEPT ![indexA] = s.tiles[indexB]],
              !.renderTimers = @ + 1]

\* lines 295-308: swap in state, schedule the re-render
swapTiles(s, indexA, indexB) ==
    [s EXCEPT !.tiles = Exchange(s.tiles, indexA, indexB),
              !.renderTimers = @ + 1]

\* handlePuzzleSolved without its setTimeout (lines 321-323 missing)
handlePuzzleSolved_NoTimer(s) ==
    [s EXCEPT !.isSolved = TRUE, !.locked = TRUE]

\* lines 313-324: set the flag, lock the puzzle, schedule the completion screen
handlePuzzleSolved(s) ==
    [s EXCEPT !.isSolved = TRUE, !.locked = TRUE, !.solveTimers = @ + 1]

\* the handler without its solved check after the swap (lines 286-288 missing)
handleTileClick_NoCheck(s, index) ==
    IF s.isSolved THEN s
    ELSE IF s.selectedTile = null THEN
        [s EXCEPT !.selectedTile = index, !.selectedCls = @ \cup {index}]
    ELSE IF s.selectedTile = index THEN
        [s EXCEPT !.selectedTile = null, !.selectedCls = @ \ {index}]
    ELSE
        LET swapped == swapTiles(s, s.selectedTile, index)
        IN  [swapped EXCEPT !.selectedCls = @ \ {swapped.selectedTile},
                            !.selectedTile = null]

\* the handler whose deselect branch forgets state.selectedTile = null
handleTileClick_StaysArmed(s, index) ==
    IF s.isSolved THEN s
    ELSE IF s.selectedTile = null THEN
        [s EXCEPT !.selectedTile = index, !.selectedCls = @ \cup {index}]
    ELSE IF s.selectedTile = index THEN
        [s EXCEPT !.selectedCls = @ \ {index}]
    ELSE
        LET swapped == swapTiles(s, s.selectedTile, index)
            cleared == [swapped EXCEPT !.selectedCls = @ \ {swapped.selectedTile},
                                       !.selectedTile = null]
        IN  IF checkSolved(cleared.tiles) THEN handlePuzzleSolved(cleared)
            ELSE cleared

\* the handler without its guard (line 264 missing)
handleTileClick_NoGuard(s, index) ==
    IF s.selectedTile = null THEN
        [s EXCEPT !.selectedTile = index, !.selectedCls = @ \cup {index}]
    ELSE IF s.selectedTile = index THEN
        [s EXCEPT !.selectedTile = null, !.selectedCls = @ \ {index}]
    ELSE
        LET swapped == swapTiles(s, s.selectedTile, index)
            cleared == [swapped EXCEPT !.selectedCls = @ \ {swapped.selectedTile},
                                       !.selectedTile = null]
        IN  IF checkSolved(cleared.tiles) THEN handlePuzzleSolved(cleared)
            ELSE cleared

\* lines 263-290
handleTileClick(s, index) ==
    IF s.isSolved THEN s
    ELSE IF s.selectedTile = null THEN
        [s EXCEPT !.selectedTile = index, !.selectedCls = @ \cup {index}]
    ELSE IF s.selectedTile = index THEN
        [s EXCEPT !.selectedTile = null, !.selectedCls = @ \ {index}]
    ELSE
        LET swapped == swapTiles(s, s.selectedTile, index)
            cleared == [swapped EXCEPT !.selectedCls = @ \ {swapped.selectedTile},
                                       !.selectedTile = null]
        IN  IF checkSolved(cleared.tiles) THEN handlePuzzleSolved(cleared)
            ELSE cleared

\* the activation performs a swap
Swaps(s, index) ==
    ~s.isSolved /\ s.selectedTile # null /\ s.selectedTile # index

(***************************************************************************)
(* Initial state: DOMContentLoaded has run setupEventListeners() and       *)
(* init(), which is suspended awaiting fetchLevels().                      *)
(***************************************************************************)
\* no audio element; an element just constructed, loading, with its
\* 'canplaythrough' listener attached (lines 364-380)
NoAudio == [mode |-> "none", canplay |-> FALSE]
NewAudio == [mode |-> "stopped", canplay |-> TRUE]

InitCall == [fn |-> "init", pc |-> "fetchLevels", levelIndex |-> null,
             levelName |-> null]

LoadCall(levelIndex) ==
    [fn |-> "loadLevel", pc |-> "fetchLevelData", levelIndex |-> levelIndex,
     levelName |-> LevelName(levelIndex)]

InitState ==
    /\ levels = EmptyArray
    /\ currentLevelIndex = 0
    /\ currentLevel = null
    /\ gridSize = 3
    /\ tiles = EmptyArray
    /\ selectedTile = null
    /\ isSolved = FALSE
    /\ originalImage = null
    /\ audioElement = null
    /\ errorMessage = ""
    /\ locked = FALSE
    /\ selectedCls = {}
    /\ playback = NoAudio
    /\ renderTimers = 0
    /\ solveTimers = 0
    /\ last = [op |-> "DOMContentLoaded", arg |-> null, tiles |-> EmptyArray,
               selectedTile |-> null, isSolved |-> FALSE]
    /\ loadSnap = [currentLevelIndex |-> 0, currentLevel |-> null, gridSize |-> 3,
                   tiles |-> EmptyArray, selectedTile |-> null,
                   isSolved |-> FALSE, audioElement |-> null]
    /\ audioCount = 0
    /\ loadBy = "none"
    /\ boardLevel = null

ServerIdle ==
    /\ svPc = "idle"
    /\ svExists = TRUE
    /\ svItems = <<>>
    /\ svResponse = [status |-> 0, levels |-> <<>>]

ShuffleIdle ==
    /\ shPc = "idle"
    /\ shTiles = EmptyArray
    /\ shRandom = EmptyArray
    /\ shShuffled = EmptyArray
    /\ shResult = EmptyArray

Init ==
    /\ InitState
    /\ screen = "loading"
    /\ calls = <<InitCall>>
    /\ ShuffleIdle
    /\ ServerIdle

Remove(seq, k) == [i \in 1..(Len(seq) - 1) |-> IF i < k THEN seq[i] ELSE seq[i + 1]]

(***************************************************************************)
(* init(), lines 464-478, resumed after await fetchLevels().               *)
(***************************************************************************)
FetchLevelsOk(k, n) ==
    /\ k \in 1..Len(calls)
    /\ calls[k].pc = "fetchLevels"
    /\ n \in 1..MaxLevels
    /\ levels' = LevelList(n)
    /\ screen' = "welcome"
    /\ calls' = Remove(calls, k)
    /\ Log("fetchLevelsOk", n)
    /\ UNCHANGED <<currentLevelIndex, currentLevel, gridSize, tiles, selectedTile,
                   isSolved, originalImage, audioElement, errorMessage, locked,
                   selectedCls, renderTimers, solveTimers, loadSnap, loadBy,
                   audioCount, boardLevel, ownVars, playback>>

\* fetchLevels without the check for an empty list: init goes on to the
\* welcome screen with no levels
FetchLevelsFail_EmptyProceeds(k, message) ==
    /\ k \in 1..Len(calls)
    /\ calls[k].pc = "fetchLevels"
    /\ message \in {"Failed to load levels", "No levels found"}
    /\ IF message = "No levels found"
       THEN /\ levels' = EmptyArray
            /\ screen' = "welcome"
            /\ UNCHANGED errorMessage
       ELSE /\ errorMessage' = message
            /\ screen' = "error"
            /\ UNCHANGED levels
    /\ calls' = Remove(calls, k)
    /\ Log("fetchLevelsFail", null)
    /\ UNCHANGED <<currentLevelIndex, currentLevel, gridSize, tiles, selectedTile,
                   isSolved, originalImage, audioElement, locked, selectedCls,
                   renderTimers, solveTimers, loadSnap, loadBy, audioCount,
                   boardLevel, ownVars, playback>>

\* fetchLevels throws: the response is not ok, or the list is empty
FetchLevelsFail(k, message) ==
    /\ k \in 1..Len(calls)
    /\ calls[k].pc = "fetchLevels"
    /\ message \in {"Failed to load levels", "No levels found"}
    /\ errorMessage' = message
    /\ screen' = "error"
    /\ calls' = Remove(calls, k)
    /\ Log("fetchLevelsFail", null)
    /\ UNCHANGED <<stateVars, locked, selectedCls, renderTimers, solveTimers,
                   loadSnap, loadBy, audioCount, boardLevel, ownVars,
                   playback>>

(***************************************************************************)
(* loadLevel(levelIndex), lines 390-434.                                   *)
(***************************************************************************)
\* loadLevel without showScreen(elements.loadingScreen) (line 392 missing)
loadLevel_KeepsScreen(levelIndex) ==
    /\ screen' = screen
    /\ calls' = Append(calls, LoadCall(levelIndex))

\* up to the first await: show the loading screen, request the level data
loadLevel(levelIndex) ==
    /\ screen' = "loading"
    /\ calls' = Append(calls, LoadCall(levelIndex))

\* a load that resets the game state before the image has arrived
FetchLevelDataOk_ResetsEarly(k) ==
    /\ k \in 1..Len(calls)
    /\ calls[k].pc = "fetchLevelData"
    /\ calls[k].levelName # null
    /\ currentLevel' = calls[k].levelName
    /\ currentLevelIndex' = calls[k].levelIndex
    /\ gridSize' = calculateGridSize(calls[k].levelIndex)
    /\ isSolved' = FALSE
    /\ calls' = [calls EXCEPT ![k].pc = "loadImage"]
    /\ Log("fetchLevelDataOk", calls[k].levelIndex)
    /\ UNCHANGED <<levels, tiles, selectedTile, originalImage,
                   audioElement, domVars, renderTimers, solveTimers, loadSnap,
                   loadBy, audioCount, boardLevel, ownVars>>

\* lines 396-408: the level data arrived; request the image
FetchLevelDataOk(k) ==
    /\ k \in 1..Len(calls)
    /\ calls[k].pc = "fetchLevelData"
    /\ calls[k].levelName # null
    /\ currentLevel' = calls[k].levelName
    /\ currentLevelIndex' = calls[k].levelIndex
    /\ gridSize' = calculateGridSize(calls[k].levelIndex)
    /\ calls' = [calls EXCEPT ![k].pc = "loadImage"]
    /\ Log("fetchLevelDataOk", calls[k].levelIndex)
    /\ UNCHANGED <<levels, tiles, selectedTile, isSolved, originalImage,
                   audioElement, domVars, renderTimers, solveTimers, loadSnap,
                   loadBy,
                   audioCount, boardLevel, ownVars>>

\* fetchLevelData throws; lines 430-433
FetchLevelDataFail(k) ==
    /\ k \in 1..Len(calls)
    /\ calls[k].pc = "fetchLevelData"
    /\ errorMessage' = "Failed to load level: Failed to load level"
    /\ screen' = "error"
    /\ calls' = Remove(calls, k)
    /\ Log("loadFail", calls[k].levelIndex)
    /\ UNCHANGED <<stateVars, locked, selectedCls, renderTimers, solveTimers,
                   loadSnap, loadBy, audioCount, boardLevel, ownVars,
                   playback>>

\* a reset that leaves the previous level's audio element in place
ResetGame_KeepAudio ==
    /\ selectedTile' = null
    /\ isSolved' = FALSE
    /\ UNCHANGED <<audioElement, playback>>

\* lines 414-423: reset game state, clean up any audio from the previous level
ResetGame ==
    /\ selectedTile' = null
    /\ isSolved' = FALSE
    /\ audioElement' = null
    /\ playback' = NoAudio

\* lines 408-428: the image arrived; build the board and show the game
LoadImageOk(k, rnd) ==
    /\ k \in 1..Len(calls)
    /\ calls[k].pc = "loadImage"
    /\ rnd \in RandomChoices(gridSize * gridSize, MaxPos)
    /\ originalImage' = calls[k].levelName
    /\ tiles' = shuffleTiles(createTiles(gridSize), rnd)
    /\ ResetGame
    \* renderPuzzle()
    /\ selectedCls' = {}
    /\ locked' = FALSE
    /\ screen' = "game"
    /\ calls' = Remove(calls, k)
    /\ boardLevel' = calls[k].levelIndex
    /\ Log("loadOk", calls[k].levelIndex)
    /\ UNCHANGED <<levels, currentLevelIndex, currentLevel, gridSize, errorMessage,
                   renderTimers, solveTimers, loadSnap, loadBy, audioCount, ownVars>>

\* loadImage rejects; lines 430-433
LoadImageFail(k) ==
    /\ k \in 1..Len(calls)
    /\ calls[k].pc = "loadImage"
    /\ errorMessage' = "Failed to load level: Failed to load image"
    /\ screen' = "error"
    /\ calls' = Remove(calls, k)
    /\ Log("loadFail", calls[k].levelIndex)
    /\ UNCHANGED <<stateVars, locked, selectedCls, renderTimers, solveTimers,
                   loadSnap, loadBy, audioCount, boardLevel, ownVars,
                   playback>>

(***************************************************************************)
(* Tile activation (click, Enter or Space on a tile element).              *)
(***************************************************************************)
ClickTile(index) ==
    /\ Shown("tile")
    /\ index \in DOMAIN tiles
    /\ index < MaxPos
    /\ Swaps(Puzzle, index) => renderTimers < MaxTimers
    /\ LET s == handleTileClick(Puzzle, index)
       IN  /\ tiles' = s.tiles
           /\ selectedTile' = s.selectedTile
           /\ isSolved' = s.isSolved
           /\ selectedCls' = s.selectedCls
           /\ locked' = s.locked
           /\ renderTimers' = s.renderTimers
           /\ solveTimers' = s.solveTimers
           /\ audioCount' = IF s.isSolved /\ ~isSolved THEN 0 ELSE audioCount
    /\ Log("tile", index)
    /\ UNCHANGED <<levels, currentLevelIndex, currentLevel, gridSize,
                   originalImage, audioElement, screen, errorMessage, calls,
                   loadSnap, loadBy, boardLevel, ownVars, playback>>

(***************************************************************************)
(* Timers.                                                                 *)
(***************************************************************************)
\* the re-render scheduled by swapTiles (150 ms): renderPuzzle(), lines 222-258
RenderTimer ==
    /\ renderTimers > 0
    /\ renderTimers' = renderTimers - 1
    /\ selectedCls' = {}
    /\ locked' = FALSE
    /\ Log("renderTimer", null)
    /\ UNCHANGED <<stateVars, screen, errorMessage, solveTimers, calls,
                   loadSnap, loadBy,
                   audioCount, boardLevel, ownVars, playback>>

\* lines 355-381: drop any existing element, construct one for the current level
createAndPlayAudio ==
    /\ audioElement' = currentLevel
    /\ audioCount' = audioCount + 1
    /\ playback' = NewAudio

\* lines 373-377: 'canplaythrough' fires once; play() starts playback unless
\* the platform's auto-play policy rejects it
CanPlayThrough(allowed) ==
    /\ audioElement # null
    /\ playback.canplay
    /\ playback' = [mode |-> IF allowed THEN "playing" ELSE playback.mode,
                    canplay |-> FALSE]
    /\ Log("canplaythrough", null)
    /\ UNCHANGED <<stateVars, screen, errorMessage, locked, selectedCls,
                   loopVars, loadSnap, loadBy, audioCount, boardLevel, ownVars>>

\* the timer scheduled by handlePuzzleSolved (500 ms): showCompletionScreen()
\* and createAndPlayAudio(), lines 329-381.  Every re-render timer was set no
\* later and with a shorter delay, so it has fired before.
SolveTimer ==
    /\ solveTimers > 0
    /\ renderTimers = 0
    /\ solveTimers' = solveTimers - 1
    /\ screen' = "completion"
    /\ createAndPlayAudio
    /\ Log("solveTimer", null)
    /\ UNCHANGED <<levels, currentLevelIndex, currentLevel, gridSize, tiles,
                   selectedTile, isSolved, originalImage, errorMessage, locked,
                   selectedCls, renderTimers, calls, loadSnap, loadBy, boardLevel,
                   ownVars>>

(***************************************************************************)
(* Buttons, lines 483-517.                                                 *)
(***************************************************************************)
ClickStart ==
    /\ Shown("startBtn")
    /\ loadLevel(0)
    /\ loadSnap' = SessionFields
    /\ loadBy' = "start"
    /\ Log("start", null)
    /\ UNCHANGED <<stateVars, errorMessage, locked, selectedCls, renderTimers,
                   solveTimers, audioCount, boardLevel, ownVars, playback>>

ClickRetry ==
    /\ Shown("retryBtn")
    /\ screen' = "loading"
    /\ calls' = Append(calls, InitCall)
    /\ Log("retry", null)
    /\ UNCHANGED <<stateVars, errorMessage, locked, selectedCls, renderTimers,
                   solveTimers, loadSnap, loadBy, audioCount, boardLevel, ownVars,
                   playback>>

\* a replay that builds a fresh audio element instead of rewinding
ClickReplay_Recreates ==
    /\ Shown("replayBtn")
    /\ createAndPlayAudio
    /\ Log("replay", null)
    /\ UNCHANGED <<levels, currentLevelIndex, currentLevel, gridSize, tiles,
                   selectedTile, isSolved, originalImage, screen, errorMessage,
                   locked, selectedCls, loopVars, loadSnap, loadBy, boardLevel,
                   ownVars>>

\* lines 496-501: with an audio element, rewind and play(); play() may reject
replayAudio(audio, pb, played) ==
    IF audio # null /\ played THEN [pb EXCEPT !.mode = "playing"] ELSE pb

\* lines 495-502
ClickReplay ==
    /\ Shown("replayBtn")
    /\ \E played \in BOOLEAN : playback' = replayAudio(audioElement, playback, played)
    /\ Log("replay", null)
    /\ UNCHANGED <<stateVars, screen, errorMessage, locked, selectedCls,
                   loopVars, loadSnap, loadBy, audioCount, boardLevel, ownVars>>

\* nextLevel comparing against levels.length instead of levels.length - 1
ClickNext_OffByOne ==
    /\ Shown("nextBtn")
    /\ IF currentLevelIndex >= Length(levels)
       THEN /\ screen' = "final"
            /\ UNCHANGED <<calls, loadSnap, loadBy>>
       ELSE /\ loadLevel(currentLevelIndex + 1)
            /\ loadSnap' = SessionFields
            /\ loadBy' = "next"
    /\ playback' = IF audioElement # null THEN [playback EXCEPT !.mode = "stopped"]
                   ELSE playback
    /\ Log("next", null)
    /\ UNCHANGED <<stateVars, errorMessage, locked, selectedCls, renderTimers,
                   solveTimers, audioCount, boardLevel, ownVars>>

\* lines 505-511 and nextLevel(), lines 439-447
ClickNext ==
    /\ Shown("nextBtn")
    /\ IF currentLevelIndex >= Length(levels) - 1
       THEN /\ screen' = "final"
            /\ UNCHANGED <<calls, loadSnap, loadBy>>
       ELSE /\ loadLevel(currentLevelIndex + 1)
            /\ loadSnap' = SessionFields
            /\ loadBy' = "next"
    \* lines 507-509: stop audio before moving on
    /\ playback' = IF audioElement # null THEN [playback EXCEPT !.mode = "stopped"]
                   ELSE playback
    /\ Log("next", null)
    /\ UNCHANGED <<stateVars, errorMessage, locked, selectedCls, renderTimers,
                   solveTimers, audioCount, boardLevel, ownVars>>

\* a restart that reloads the current level instead of the first
ClickRestart_SameLevel ==
    /\ Shown("restartBtn")
    /\ loadLevel(currentLevelIndex)
    /\ loadSnap' = SessionFields
    /\ loadBy' = "restart"
    /\ Log("restart", null)
    /\ UNCHANGED <<stateVars, errorMessage, locked, selectedCls, renderTimers,
                   solveTimers, audioCount, boardLevel, ownVars, playback>>

\* restart(), lines 452-455
ClickRestart ==
    /\ Shown("restartBtn")
    /\ currentLevelIndex' = 0
    /\ loadLevel(0)
    /\ loadSnap' = SessionFields
    /\ loadBy' = "restart"
    /\ Log("restart", null)
    /\ UNCHANGED <<levels, currentLevel, gridSize, tiles, selectedTile, isSolved,
                   originalImage, audioElement, errorMessage, locked, selectedCls,
                   renderTimers, solveTimers, audioCount, boardLevel, ownVars,
                   playback>>

Next ==
    \/ \E k \in 1..Len(calls), n \in 1..MaxLevels : FetchLevelsOk(k, n)
    \/ \E k \in 1..Len(calls),
          message \in {"Failed to load levels", "No levels found"} :
            FetchLevelsFail(k, message)
    \/ \E k \in 1..Len(calls) : FetchLevelDataOk(k)
    \/ \E k \in 1..Len(calls) : FetchLevelDataFail(k)
    \/ \E k \in 1..Len(calls) :
          \E rnd \in RandomChoices(gridSize * gridSize, MaxPos) : LoadImageOk(k, rnd)
    \/ \E k \in 1..Len(calls) : LoadImageFail(k)
    \/ \E index \in 0..(MaxPos - 1) : ClickTile(index)
    \/ RenderTimer
    \/ SolveTimer
    \/ \E allowed \in BOOLEAN : CanPlayThrough(allowed)
    \/ ClickStart
    \/ ClickRetry
    \/ ClickReplay
    \/ ClickNext
    \/ ClickRestart

Spec == Init /\ [][Next]_vars

\* the session with its timers firing: a callback scheduled by setTimeout
\* (lines 305-307 and 321-323) is run once its delay has passed
SpecTimers == Spec /\ WF_vars(RenderTimer) /\ WF_vars(SolveTimer)

(***************************************************************************)
(* The shuffle engine on its own: shuffleTiles applied to a solved array   *)
(* of n tiles, for every outcome of Math.random().                         *)
(***************************************************************************)
InitShuffle ==
    /\ InitState
    /\ screen = "loading"
    /\ calls = <<>>
    /\ shPc = "call"
    /\ shTiles \in {[i \in 0..(n - 1) |-> i] : n \in 0..MaxTiles}
    /\ shRandom = EmptyArray
    /\ shShuffled = EmptyArray
    /\ shResult = EmptyArray
    /\ ServerIdle

\* lines 97-104: the Fisher-Yates loop
ShuffleLoop(rnd) ==
    /\ shPc = "call"
    /\ rnd \in RandomChoices(Length(shTiles), Length(shTiles))
    /\ shRandom' = rnd
    /\ shShuffled' = FisherYates(shTiles, Length(shTiles) - 1, rnd)
    /\ shPc' = "shuffled"
    /\ UNCHANGED <<shTiles, shResult, stateVars, domVars, loopVars, histVars,
                   svVars>>

\* lines 106-124: count the inversions, fix the parity, return
ShuffleReturn ==
    /\ shPc = "shuffled"
    /\ shResult' = shuffleTiles(shTiles, shRandom)
    /\ shPc' = "done"
    /\ UNCHANGED <<shTiles, shRandom, shShuffled, stateVars, domVars, loopVars,
                   histVars, svVars>>

NextShuffle ==
    \/ \E rnd \in RandomChoices(Length(shTiles), Length(shTiles)) : ShuffleLoop(rnd)
    \/ ShuffleReturn

SpecShuffle == InitShuffle /\ [][NextShuffle]_vars

(***************************************************************************)
(* GET /api/levels on its own (server.js lines 27-84), for every content   *)
(* of the levels directory.  An item name is a sequence of tokens: the     *)
(* text "level_", a digit, or another character.  A file is given by its   *)
(* extension as written.                                                   *)
(***************************************************************************)
Tokens == {"level_", "1", "2", "x"}

DigitValue(token) == CASE token = "1" -> 1 [] token = "2" -> 2 [] OTHER -> null

ItemNames == UNION {[1..n -> Tokens] : n \in 1..MaxNameLen}

FileNames == {"jpg", "PNG", "mp3", "txt"}

\* the /i flag of the two regular expressions
LowerCase(ext) == IF ext = "PNG" THEN "png" ELSE ext

\* /\.(jpg|jpeg|png|gif|webp)$/i.test(f), line 60
isImageFile(f) == LowerCase(f) \in {"jpg", "jpeg", "png", "gif", "webp"}

\* /\.(mp3|wav|ogg|m4a)$/i.test(f), line 63
isAudioFile(f) == LowerCase(f) \in {"mp3", "wav", "ogg", "m4a"}

\* item.startsWith('level_'), line 53
startsWithLevel(item) == Len(item) >= 1 /\ item[1] = "level_"

\* item.replace('level_', ''): the first occurrence is removed
replaceLevel(item) ==
    IF \E i \in 1..Len(item) : item[i] = "level_"
    THEN LET i == CHOOSE i \in 1..Len(item) :
                    /\ item[i] = "level_"
                    /\ \A j \in 1..(i - 1) : item[j] # "level_"
         IN  SubSeq(item, 1, i - 1) \o SubSeq(item, i + 1, Len(item))
    ELSE item

\* parseInt(text, 10) || 0: the leading digits as a number, 0 without any
RECURSIVE parseDigits(_, _)
parseDigits(text, acc) ==
    IF text = <<>> \/ DigitValue(Head(text)) = null THEN acc
    ELSE parseDigits(Tail(text), 10 * acc + DigitValue(Head(text)))

levelNumber(item) == parseDigits(replaceLevel(item), 0)

\* the filter callback, lines 44-67
isLevelFolder(entry) ==
    /\ entry.isDir
    /\ startsWithLevel(entry.name)
    /\ \E f \in entry.files : isImageFile(f)
    /\ \E f \in entry.files : isAudioFile(f)

\* Array.prototype.sort with (a, b) => numA - numB, lines 69-73: stable
RECURSIVE sortLevels(_)
sortLevels(names) ==
    IF names = <<>> THEN <<>>
    ELSE LET rest == sortLevels(Tail(names))
             before == SelectSeq(rest, LAMBDA b : levelNumber(b) < levelNumber(Head(names)))
             after == SelectSeq(rest, LAMBDA b : levelNumber(b) >= levelNumber(Head(names)))
         IN  before \o <<Head(names)>> \o after

ItemNamesOf(items) == [i \in 1..Len(items) |-> items[i].name]

DirEntries ==
    {[name |-> n, isDir |-> FALSE, files |-> {}] : n \in ItemNames}
    \cup {[name |-> n, isDir |-> TRUE, files |-> fs] :
            n \in ItemNames,
            fs \in {x \in SUBSET FileNames : Cardinality(x) <= MaxFiles}}

Listings ==
    {items \in UNION {[1..n -> DirEntries] : n \in 0..MaxItems} :
        \A i, j \in 1..Len(items) : i # j => items[i].name # items[j].name}

InitServer ==
    /\ InitState
    /\ screen = "loading"
    /\ calls = <<>>
    /\ ShuffleIdle
    /\ svPc = "request"
    /\ svExists \in BOOLEAN
    /\ svItems \in (IF svExists THEN Listings ELSE {<<>>})
    /\ svResponse = [status |-> 0, levels |-> <<>>]

\* lines 32-37: the directory is missing
GetLevelsNotFound ==
    /\ svPc = "request"
    /\ ~svExists
    /\ svResponse' = [status |-> 404, levels |-> <<>>]
    /\ svPc' = "done"
    /\ UNCHANGED <<svExists, svItems, stateVars, domVars, loopVars, histVars, shVars>>

\* lines 40-75: read, filter, sort, respond
GetLevels ==
    /\ svPc = "request"
    /\ svExists
    /\ svResponse' =
          [status |-> 200,
           levels |-> sortLevels(ItemNamesOf(SelectSeq(svItems, isLevelFolder)))]
    /\ svPc' = "done"
    /\ UNCHANGED <<svExists, svItems, stateVars, domVars, loopVars, histVars, shVars>>

NextServer == GetLevelsNotFound \/ GetLevels

SpecServer == InitServer /\ [][NextServer]_vars

(***************************************************************************)
(* Properties.                                                             *)
(***************************************************************************)
Loaded == boardLevel # null

Originals(t) == {t[i] : i \in DOMAIN t}

\* the handler applied to a sequence of activations
RECURSIVE Play(_, _)
Play(s, clicks) ==
    IF clicks = <<>> THEN s
    ELSE Play(handleTileClick(s, Head(clicks)), Tail(clicks))

\* selection sort by pairs of activations: bring tile i to position i
RECURSIVE SortClicks(_, _)
SortClicks(t, i) ==
    IF i >= Length(t) THEN <<>>
    ELSE IF t[i] = i THEN SortClicks(t, i + 1)
    ELSE LET j == CHOOSE j \in DOMAIN t : t[j] = i
         IN  <<i, j>> \o SortClicks(Exchange(t, i, j), i + 1)

\* a sequence of activations for an unsolved session: disarm, then sort; a
\* board that is in order with the flag unset is swapped out of order and back
SolvingClicks(s) ==
    (IF s.selectedTile # null THEN <<s.selectedTile>> ELSE <<>>)
    \o (IF checkSolved(s.tiles) THEN <<0, 1, 0, 1>> ELSE SortClicks(s.tiles, 0))

BoardIsPermutation ==
    Loaded =>
        LET N == calculateGridSize(boardLevel)
        IN  /\ Length(tiles) = N * N
            /\ Originals(tiles) = 0..(N * N - 1)

\* C2 witness: a swap has just changed the board of the second level.
BoardIsPermutation_Witness ==
    /\ last.op = "tile"
    /\ tiles # last.tiles
    /\ boardLevel = 1

\* C3: whenever a level is loaded, isSolved is true iff every tile at
\* position i has originalIndex i.
SolvedFlagAgrees == Loaded => (isSolved <=> checkSolved(tiles))

\* C4: for an input of more than one tile, whatever Math.random() returns,
\* the board shuffleTiles returns is not in solved order.
ShuffleNeverSolved ==
    (shPc = "done" /\ Length(shTiles) > 1) => ~checkSolved(shResult)

GridSizeMatchesLevel ==
    gridSize = (IF 3 + currentLevelIndex < 6 THEN 3 + currentLevelIndex ELSE 6)

\* C7: after a failed level load the error screen shows a message and
\* currentLevelIndex, currentLevel, gridSize, tiles, selectedTile, isSolved
\* and audioElement have the values they had when the load was requested.
FailedLoadRestoresSession ==
    last.op = "loadFail" =>
        /\ screen = "error"
        /\ errorMessage # ""
        /\ SessionFields = loadSnap

\* C8: with the puzzle unsolved and no tile armed, activating the same
\* position twice in a row leaves selectedTile empty and leaves the board and
\* isSolved as they were.
SameTileTwiceDeselects ==
    [][(/\ last.op = "tile"
        /\ ~last.isSolved
        /\ last.selectedTile = null
        /\ last'.op = "tile"
        /\ last'.arg = last.arg)
       => (/\ selectedTile' = null
           /\ tiles' = last.tiles
           /\ isSolved' = last.isSolved)]_vars

\* C8 witness: the armed position of an unsolved puzzle has just been
\* activated again.
SameTileTwiceDeselects_Witness ==
    /\ last.op = "tile"
    /\ ~last.isSolved
    /\ last.selectedTile = last.arg
    /\ selectedTile = null
    /\ tiles = last.tiles

\* C9: once isSolved is true a tile activation changes nothing (board,
\* selection, flag, timers, lock, highlight, audio, screen), and the board
\* stays as it is until a level load completes.
SolvedIgnoresClicks ==
    [][isSolved =>
          /\ last'.op = "tile" =>
                UNCHANGED <<tiles, selectedTile, isSolved, renderTimers,
                            solveTimers, locked, selectedCls, audioElement,
                            audioCount, screen, calls>>
          /\ last'.op # "loadOk" => tiles' = tiles]_vars

\* C9 witness: a tile has just been activated while the puzzle was solved.
SolvedIgnoresClicks_Witness ==
    /\ last.op = "tile"
    /\ last.isSolved
    /\ isSolved

ReplayOnlyRestarts ==
    [][last'.op = "replay" =>
          /\ UNCHANGED <<stateVars, audioCount, screen, loopVars>>
          /\ audioElement = null => playback' = playback
          /\ playback' = playback \/ playback' = [playback EXCEPT !.mode = "playing"]
      ]_vars

\* C12 witness: Replay has just started playback that auto-play had not
\* started.
ReplayOnlyRestarts_Witness ==
    /\ last.op = "replay"
    /\ audioElement # null
    /\ playback = [mode |-> "playing", canplay |-> TRUE]
    /\ audioCount = 1

\* C13: once isSolved is true it stays true in every step other than the
\* successful completion of a level load.
SolvedIsMonotonic == [][isSolved => (isSolved' \/ last'.op = "loadOk")]_vars

\* C13 witness: a load requested from a solved level has failed and isSolved
\* is still true.
SolvedIsMonotonic_Witness ==
    /\ last.op = "loadFail"
    /\ last.isSolved
    /\ isSolved

isLevelNumberName(item) ==
    /\ Len(item) >= 2
    /\ item[1] = "level_"
    /\ \A i \in 2..Len(item) : item[i] \in {"1", "2"}

\* C15: the list GET /api/levels returns holds exactly the directories whose
\* name is 'level_' followed by a number and which hold at least one file with
\* an image extension and at least one with an audio extension.
LevelListIsExact ==
    (svPc = "done" /\ svExists) =>
        {svResponse.levels[i] : i \in 1..Len(svResponse.levels)} =
            {svItems[i].name : i \in {i \in 1..Len(svItems) :
                /\ svItems[i].isDir
                /\ isLevelNumberName(svItems[i].name)
                /\ \E f \in svItems[i].files :
                      f \in {"jpg", "jpeg", "png", "gif", "webp", "PNG"}
                /\ \E f \in svItems[i].files :
                      f \in {"mp3", "wav", "ogg", "m4a"}}}

ArrayOf(seq) == [i \in 0..(Len(seq) - 1) |-> seq[i + 1]]

\* number of entries after position i that are smaller than the entry at i,
\* summed from position i to the end
RECURSIVE SmallerAfter(_, _)
SmallerAfter(p, i) ==
    IF i >= Length(p) THEN 0
    ELSE Cardinality({j \in DOMAIN p : j > i /\ p[j] < p[i]}) + SmallerAfter(p, i + 1)

\* C17: shuffleTiles returns the randomly shuffled permutation with positions
\* 0 and 1 exchanged when it has an odd number of inversions, and unchanged
\* when the number is even; [1,0,3,2] comes back unchanged and [3,1,2,0]
\* comes back as [1,3,2,0].
ParityFixOnOddInversions ==
    shPc = "done" =>
        /\ IF SmallerAfter(shShuffled, 0) % 2 = 1
           THEN /\ Length(shResult) = Length(shShuffled)
                /\ shResult[0] = shShuffled[1]
                /\ shResult[1] = shShuffled[0]
                /\ \A i \in DOMAIN shShuffled : i > 1 => shResult[i] = shShuffled[i]
           ELSE shResult = shShuffled
        /\ shShuffled = ArrayOf(<<1, 0, 3, 2>>) => shResult = shShuffled
        /\ shShuffled = ArrayOf(<<3, 1, 2, 0>>) => shResult = ArrayOf(<<1, 3, 2, 0>>)

ParityFixOnOddInversions_Witness ==
    /\ shPc = "done"
    /\ shShuffled = ArrayOf(<<3, 1, 2, 0>>)
    /\ SmallerAfter(shShuffled, 0) = 5
    /\ shResult = ArrayOf(<<1, 3, 2, 0>>)

\* C18: with the puzzle unsolved and position a armed, activating another
\* position b exchanges the board entries at a and b and no others, leaves
\* no selection, and sets isSolved exactly when the board that results is in
\* solved order.
SwapExchangesTwoEntries ==
    (/\ last.op = "tile"
     /\ ~last.isSolved
     /\ last.selectedTile # null
     /\ last.selectedTile # last.arg) =>
        LET a == last.selectedTile
            b == last.arg
        IN  /\ DOMAIN tiles = DOMAIN last.tiles
            /\ tiles[a] = last.tiles[b]
            /\ tiles[b] = last.tiles[a]
            /\ \A i \in DOMAIN tiles : i \notin {a, b} => tiles[i] = last.tiles[i]
            /\ selectedTile = null
            /\ isSolved <=> \A i \in DOMAIN tiles : tiles[i] = i

\* C18 witness: the swap of positions 1 and 2 has just solved the first level.
SwapExchangesTwoEntries_Witness ==
    /\ last.op = "tile"
    /\ ~last.isSolved
    /\ last.selectedTile = 1
    /\ last.arg = 2
    /\ tiles # last.tiles
    /\ isSolved
    /\ boardLevel = 0

\* C19: a level load resets the board, the grid size, the solved flag, the
\* selection and the audio handle together: once a first level has loaded,
\* state.tiles has gridSize * gridSize entries in every state, and while a
\* load awaits its image the grid size is still that of the board's level.
LoadResetIsAtomic ==
    Loaded =>
        /\ Length(tiles) = gridSize * gridSize
        /\ gridSize = calculateGridSize(boardLevel)

\* C20: once the level list has been fetched, currentLevelIndex is an index
\* into it: 0 <= currentLevelIndex < levels.length.
LevelIndexInRange ==
    Length(levels) > 0 =>
        /\ 0 <= currentLevelIndex
        /\ currentLevelIndex < Length(levels)

PuzzleStaysLocked == isSolved => locked

ShuffleResultIsEven ==
    (shPc = "done" /\ Length(shTiles) >= 2) =>
        /\ SmallerAfter(shResult, 0) % 2 = 0
        /\ Originals(shResult) = Originals(shTiles)

\* C24 witness: a shuffle of five tiles with an odd number of inversions has
\* been returned with its parity fixed.
ShuffleResultIsEven_Witness ==
    /\ shPc = "done"
    /\ Length(shTiles) = 5
    /\ SmallerAfter(shShuffled, 0) = 7
    /\ SmallerAfter(shResult, 0) \in {6, 8}
    /\ shResult # shShuffled

\* C25: whenever the game screen is shown and no re-render timer is pending,
\* a displayed tile carries the 'selected' highlight if and only if its
\* position equals state.selectedTile, also when the tile was armed between
\* a swap and its re-render.
HighlightMatchesSelection ==
    (screen = "game" /\ renderTimers = 0) =>
        \A i \in DOMAIN tiles : (i \in selectedCls) <=> (i = selectedTile)

=============================================================================
